---- MODULE Spec2Model ----
(***************************************************************************)
(* Session (state lock, stable-state section, login/logout lifecycle,      *)
(* heartbeat) of the SchulNetz client, as a state machine.                 *)
(*                                                                         *)
(* JavaScript runs one job at a time.  A step of the model is one job: the *)
(* synchronous part of an API call, the continuation of an awaited promise *)
(* that was resolved or rejected (taken in FIFO order from the microtask   *)
(* queue `jobs`), or an event of the environment (a response, the timer).  *)
(* Events of the environment are macrotasks: they run when the microtask   *)
(* queue is empty.  API calls are made by jobs of the callers, which may be *)
(* queued ahead of a continuation the Session has queued (the continuation *)
(* of another task's `await session.login()`, say), so a call may arrive    *)
(* between the waking of a waiter and its resumption.  The return of an    *)
(* async function to the caller that awaits it is folded into the job that *)
(* returns.  The Symbol of an acquisition is the number of the call that   *)
(* made it; the id/transid of a page and the cookie of a response are the  *)
(* number of the call that requested them.                                 *)
(***************************************************************************)
EXTENDS Integers, Sequences, FiniteSets, TLC

MaxCalls == 4                    \* API calls made on the Session in one run

Calls == 1..MaxCalls
HB == 0                          \* job id of the sessionTimer loop
NoLock == 0                      \* _stateLock === undefined
Placeholder == -1                \* the Symbol() installed by the read section
NoKey == 0                       \* waitKey === undefined
Key == 1                         \* the waitKey of the latest wait()

Kinds == {"fetchPage", "fetchPageStable", "login", "logout"}
FetchKinds == {"fetchPage", "fetchPageStable"}
\* what a request can come back with: a response, a thrown transport error,
\* a response without Set-Cookie header, a response whose page lacks the
\* element the caller looks for (login hash, menu link with id/transid)
Responses == {"ok", "fail", "noCookie", "bad"}

VARIABLES
    id, transId, lastVisitedPageId, visitedPageIds, cookies, _loggedIn,
    stateLock, stateLockQueue, stateChanging,
    stableStateListeners, stableStateRetainCount,
    sessionTimerRunning, waitKey, waitCancelMap, timer, loops, resetFor,
    call, jobs, started,
    arg, ret         \* argument and result of a call of a pure function

vars == << id, transId, lastVisitedPageId, visitedPageIds, cookies, _loggedIn,
           stateLock, stateLockQueue, stateChanging,
           stableStateListeners, stableStateRetainCount,
           sessionTimerRunning, waitKey, waitCancelMap, timer, loops, resetFor,
           call, jobs, started, arg, ret >>

\* one API call: its kind, where it is suspended, the response it was handed,
\* how it ended, and what it took and gave back; relAs tells whether its
\* releaseStateLock found its key to be the lock ("holder") or not ("other"),
\* beat whether its sessionTimer() call found no loop ("started") or one
\* ("running")
NewCall == [kind |-> "none", pc |-> "idle", resp |-> "none", result |-> "none",
            took |-> FALSE, rel |-> 0, sent |-> 0, cancelled |-> FALSE,
            relAs |-> "none", beat |-> "none"]

\* the state as one value, so that a job can be written as the sequence of
\* assignments it performs; exc is the exception in flight, if any
S == [id |-> id, transId |-> transId, lastVisitedPageId |-> lastVisitedPageId,
      visitedPageIds |-> visitedPageIds, cookies |-> cookies,
      _loggedIn |-> _loggedIn, stateLock |-> stateLock,
      stateLockQueue |-> stateLockQueue, stateChanging |-> stateChanging,
      stableStateListeners |-> stableStateListeners,
      stableStateRetainCount |-> stableStateRetainCount,
      sessionTimerRunning |-> sessionTimerRunning, waitKey |-> waitKey,
      waitCancelMap |-> waitCancelMap, timer |-> timer, loops |-> loops,
      resetFor |-> resetFor,
      call |-> call, jobs |-> jobs, exc |-> "none"]

Commit(s) ==
    /\ id' = s.id
    /\ transId' = s.transId
    /\ lastVisitedPageId' = s.lastVisitedPageId
    /\ visitedPageIds' = s.visitedPageIds
    /\ cookies' = s.cookies
    /\ _loggedIn' = s._loggedIn
    /\ stateLock' = s.stateLock
    /\ stateLockQueue' = s.stateLockQueue
    /\ stateChanging' = s.stateChanging
    /\ stableStateListeners' = s.stableStateListeners
    /\ stableStateRetainCount' = s.stableStateRetainCount
    /\ sessionTimerRunning' = s.sessionTimerRunning
    /\ waitKey' = s.waitKey
    /\ waitCancelMap' = s.waitCancelMap
    /\ timer' = s.timer
    /\ loops' = s.loops
    /\ resetFor' = s.resetFor
    /\ call' = s.call
    /\ jobs' = s.jobs
    /\ UNCHANGED << arg, ret >>

\* no call of a pure function is modelled along with the Session
NoCall == [fn |-> "none"]
NoResult == [done |-> FALSE]

\* the Session after construction
SessionInit ==
    /\ id = 0
    /\ transId = 0
    /\ lastVisitedPageId = 0
    /\ visitedPageIds = {}
    /\ cookies = {}
    /\ _loggedIn = FALSE
    /\ stateLock = NoLock
    /\ stateLockQueue = << >>
    /\ stateChanging = FALSE
    /\ stableStateListeners = << >>
    /\ stableStateRetainCount = 0
    /\ sessionTimerRunning = FALSE
    /\ waitKey = NoKey
    /\ waitCancelMap = {}
    /\ timer = "off"
    /\ loops = 0
    /\ resetFor = {}
    /\ call = [c \in Calls |-> NewCall]
    /\ jobs = << >>
    /\ started = 0

Init ==
    /\ SessionInit
    /\ arg = NoCall
    /\ ret = NoResult

(***************************************************************************)
(* Promises of suspended callers                                           *)
(***************************************************************************)

\* resolve() of a suspended caller: its continuation is queued
Resolve(s, c) ==
    [s EXCEPT !.call[c].pc = IF @ = "lockWait" THEN "lockWoken" ELSE "stableWoken",
              !.jobs = Append(@, c)]

\* reject() of a suspended caller: its continuation is queued, in the catch
Reject(s, c) ==
    [s EXCEPT !.call[c].pc = IF @ = "lockWait" THEN "lockCancelled"
                             ELSE "stableCancelled",
              !.call[c].cancelled = TRUE,
              !.jobs = Append(@, c)]

RECURSIVE ResolveAll(_, _)
ResolveAll(s, q) ==
    IF q = << >> THEN s ELSE ResolveAll(Resolve(s, Head(q)), Tail(q))

RECURSIVE RejectAll(_, _)
RejectAll(s, q) ==
    IF q = << >> THEN s ELSE RejectAll(Reject(s, Head(q)), Tail(q))

(***************************************************************************)
(* Session states: the getters and setters                                 *)
(***************************************************************************)

loggedIn(s) ==
    s._loggedIn /\ s.id # 0 /\ s.transId # 0 /\ s.lastVisitedPageId # 0

\* the login() calls that have logged the session in so far
Logins(s) ==
    { c \in DOMAIN s.call : /\ s.call[c].kind = "login"
                            /\ s.call[c].pc = "done"
                            /\ s.call[c].result = "Ok"
                            /\ s.call[c].sent = 2 }

SetStateChanging(s, value) ==
    LET s1 == [s EXCEPT !.stateChanging = value]
    IN  IF ~value
        THEN [ResolveAll(s1, s1.stableStateListeners)
                 EXCEPT !.stableStateListeners = << >>]
        ELSE s1

\* Array.pop(): the last element of the queue
QueuePop(q) == [next |-> q[Len(q)], rest |-> SubSeq(q, 1, Len(q) - 1)]

SetStateLock(s, value) ==
    LET s1 == [s EXCEPT !.stateLock = value]
    IN  IF value = NoLock
        THEN IF s1.stateLockQueue # << >>
             THEN LET p == QueuePop(s1.stateLockQueue)
                  IN  Resolve([s1 EXCEPT !.stateLockQueue = p.rest], p.next)
             ELSE SetStateChanging(s1, FALSE)
        ELSE SetStateChanging(s1, TRUE)

\* the setter without its unconditional stateChanging = false
SetStableStateRetainCount_StaysChanging(s, value) ==
    LET s1 == IF s.stableStateRetainCount = 0 /\ value > s.stableStateRetainCount
              THEN SetStateLock(s, Placeholder)
              ELSE IF value = 0 /\ value < s.stableStateRetainCount
                   THEN SetStateLock(s, NoLock)
                   ELSE s
    IN  [s1 EXCEPT !.stableStateRetainCount = value]

SetStableStateRetainCount(s, value) ==
    LET s1 == IF s.stableStateRetainCount = 0 /\ value > s.stableStateRetainCount
              THEN SetStateLock(s, Placeholder)
              ELSE IF value = 0 /\ value < s.stableStateRetainCount
                   THEN SetStateLock(s, NoLock)
                   ELSE s
        s2 == SetStateChanging(s1, FALSE)
    IN  [s2 EXCEPT !.stableStateRetainCount = value]

\* as CancelWaiters, calling the first callback of each pair (resolve)
CancelWaiters_Resolving(s) ==
    LET s1 == [ResolveAll(s, s.stableStateListeners)
                  EXCEPT !.stableStateListeners = << >>]
    IN  [ResolveAll(s1, s1.stateLockQueue) EXCEPT !.stateLockQueue = << >>]

\* the cancellation of every waiter that forcefullyAcquireStateLock and
\* teardownLockInfrastructure start with
CancelWaiters(s) ==
    LET s1 == [RejectAll(s, s.stableStateListeners)
                  EXCEPT !.stableStateListeners = << >>]
    IN  [RejectAll(s1, s1.stateLockQueue) EXCEPT !.stateLockQueue = << >>]

teardownLockInfrastructure(s) ==
    LET s1 == CancelWaiters(s)
        s2 == SetStateLock(s1, NoLock)
        s3 == SetStableStateRetainCount(s2, 0)
    IN  SetStateChanging(s3, FALSE)

\* releaseStateLock without the comparison of the key with the lock
releaseStateLock_AnyKey(s, key) ==
    SetStateLock([s EXCEPT !.call[key].relAs =
                     IF key = s.stateLock THEN "holder" ELSE "other"], NoLock)

releaseStateLock(s, key) ==
    IF key = s.stateLock
    THEN SetStateLock([s EXCEPT !.call[key].relAs = "holder"], NoLock)
    ELSE [s EXCEPT !.call[key].relAs = "other"]

releaseStableState(s) ==
    SetStableStateRetainCount(s, s.stableStateRetainCount - 1)

(***************************************************************************)
(* Timeout handling                                                        *)
(***************************************************************************)

\* wait(): registers a fresh key; sessionTimer stores it in waitKey
StartWait(s) ==
    [s EXCEPT !.waitCancelMap = {Key}, !.waitKey = Key, !.timer = "waiting"]

\* sessionTimer() without the check of sessionTimerRunning
sessionTimer_Unguarded(s) ==
    StartWait([s EXCEPT !.sessionTimerRunning = TRUE, !.loops = @ + 1])

\* the synchronous part of sessionTimer(); loops counts the invocations
\* that are inside the do-while loop
sessionTimer(s) ==
    IF s.sessionTimerRunning THEN s
    ELSE StartWait([s EXCEPT !.sessionTimerRunning = TRUE, !.loops = @ + 1])

\* cancelWait destructures waitCancelMap[waitKey]: a TypeError when the key
\* is no longer registered, before waitKey is cleared
stopSessionTimer(s) ==
    IF s.waitKey = NoKey THEN s
    ELSE IF s.waitKey \in s.waitCancelMap
         THEN [s EXCEPT !.waitCancelMap = {}, !.waitKey = NoKey,
                        !.timer = "cancelled", !.jobs = Append(@, HB)]
         ELSE [s EXCEPT !.exc = "TypeError"]

\* handleLogout that leaves the ids and the flag as they are
handleLogout_KeepsIds(s) ==
    stopSessionTimer([s EXCEPT !.visitedPageIds = {}, !.cookies = {}])

handleLogout(s) ==
    stopSessionTimer([s EXCEPT !.id = 0, !.transId = 0,
                               !.lastVisitedPageId = 0,
                               !.visitedPageIds = {}, !.cookies = {},
                               !._loggedIn = FALSE])

(***************************************************************************)
(* Requests and session data                                               *)
(***************************************************************************)

Finish(s, c, result) ==
    [s EXCEPT !.call[c].pc = "done", !.call[c].result = result,
              !.call[c].resp = "none"]

\* request(...): the caller is suspended until the response event
Send(s, c, pc) ==
    [s EXCEPT !.call[c].pc = pc, !.call[c].sent = @ + 1]

\* the page of call c carries id/transid values of its own
verifyPageAndExtractIds(s, c) ==
    [s EXCEPT !.id = c, !.transId = c]

\* the Set-Cookie header of a response stores the cookie of its request
updateCookies(s, who) ==
    [s EXCEPT !.cookies = @ \cup {who}]

\* the error a failed try block ends with: the one caught, unless the catch
\* or finally block threw one of its own
Thrown(s, caught) == IF s.exc # "none" THEN s.exc ELSE caught

(***************************************************************************)
(* Acquiring                                                               *)
(***************************************************************************)

\* what the caller does once acquire... has returned its token
Proceed(s, c) ==
    IF s.call[c].kind = "login"
    THEN IF loggedIn(s)
         THEN Finish(releaseStateLock(s, c), c, "Ok")
         ELSE Send(s, c, "inRequest1")
    ELSE Send(s, c, "inRequest")

\* const sym = Symbol(); this.stateLock = sym; return sym
TakeLock(s, c) ==
    Proceed(SetStateLock([s EXCEPT !.call[c].took = TRUE], c), c)

acquireStateLock(s, c) ==
    IF s.stateLock # NoLock
    THEN [s EXCEPT !.stateLockQueue = Append(@, c), !.call[c].pc = "lockWait"]
    ELSE TakeLock(s, c)

acquireStateLockWithPriority(s, c) ==
    IF s.stateLock # NoLock
    THEN [s EXCEPT !.stateLockQueue = << c >> \o @, !.call[c].pc = "lockWait"]
    ELSE TakeLock(s, c)

forcefullyAcquireStateLock(s, c) ==
    acquireStateLock(CancelWaiters(s), c)

\* this.stableStateRetainCount++; return true
Retain(s, c) ==
    Send(SetStableStateRetainCount([s EXCEPT !.call[c].took = TRUE],
                                   s.stableStateRetainCount + 1),
         c, "inRequest")

retainStableState(s, c) ==
    IF s.stateChanging
    THEN [s EXCEPT !.stableStateListeners = Append(@, c),
                   !.call[c].pc = "stableWait"]
    ELSE Retain(s, c)

(***************************************************************************)
(* The synchronous part of the API calls                                   *)
(***************************************************************************)

fetchPage(s, c, changesState) ==
    IF ~loggedIn(s) THEN Finish(s, c, "NotLoggedIn")
    ELSE IF changesState THEN acquireStateLock(s, c)
    ELSE retainStableState(s, c)

\* login without the check of loggedIn that precedes the acquisition
login_AlwaysAcquires(s, c) ==
    acquireStateLockWithPriority(s, c)

login(s, c) ==
    IF loggedIn(s) THEN Finish(s, c, "Ok")
    ELSE acquireStateLockWithPriority(s, c)

logout(s, c) ==
    IF ~loggedIn(s)
    THEN LET s1 == handleLogout(s) IN Finish(s1, c, Thrown(s1, "Ok"))
    ELSE forcefullyAcquireStateLock(s, c)

(***************************************************************************)
(* Continuations                                                           *)
(***************************************************************************)

\* finally of fetchPage
FetchFinally(s, c) ==
    LET s1 == [s EXCEPT !.call[c].rel = @ + 1]
    IN  IF s.call[c].kind = "fetchPage"
        THEN releaseStateLock(s1, c)
        ELSE releaseStableState(s1)

\* as FetchResume, releasing after the try block instead of in a finally
FetchResume_NoFinally(s, c) ==
    LET changesState == s.call[c].kind = "fetchPage"
        r == s.call[c].resp
    IN  IF r = "fail" \/ (changesState /\ r = "bad")
        THEN LET s1 == handleLogout(s)
             IN  Finish(s1, c, Thrown(s1, IF r = "fail" THEN "RequestError"
                                          ELSE "ParserError"))
        ELSE LET s1 == IF changesState THEN verifyPageAndExtractIds(s, c) ELSE s
                 s2 == [s1 EXCEPT !.visitedPageIds = @ \cup {c}]
             IN  Finish(FetchFinally(s2, c), c, "Ok")

\* fetchPage after its request: try, catch, finally
\* fetchPage that returns the page without verifying it
FetchResume_Unverified(s, c) ==
    LET r == s.call[c].resp
    IN  IF r = "fail"
        THEN LET s1 == handleLogout(s)
                 s2 == FetchFinally(s1, c)
             IN  Finish(s2, c, Thrown(s2, "RequestError"))
        ELSE LET s2 == [s EXCEPT !.visitedPageIds = @ \cup {c}]
             IN  Finish(FetchFinally(s2, c), c, "Ok")

FetchResume(s, c) ==
    LET changesState == s.call[c].kind = "fetchPage"
        r == s.call[c].resp
    IN  IF r = "fail" \/ (changesState /\ r = "bad")
        THEN LET s1 == handleLogout(s)
                 s2 == FetchFinally(s1, c)
             IN  Finish(s2, c, Thrown(s2, IF r = "fail" THEN "RequestError"
                                          ELSE "ParserError"))
        ELSE LET s1 == IF changesState THEN verifyPageAndExtractIds(s, c) ELSE s
                 s2 == [s1 EXCEPT !.visitedPageIds = @ \cup {c}]
             IN  Finish(FetchFinally(s2, c), c, "Ok")

\* login with the release at the end of its catch block instead of in finally
LoginFail_ReleaseInCatch(s, c, caught) ==
    LET s1 == handleLogout(s)
    IN  IF s1.exc # "none" THEN Finish(s1, c, s1.exc)
        ELSE Finish(releaseStateLock(s1, c), c, caught)

\* catch and finally of login
LoginFail(s, c, caught) ==
    LET s1 == handleLogout(s)
        s2 == releaseStateLock(s1, c)
    IN  Finish(s2, c, Thrown(s2, caught))

\* login after the request of the login page
LoginResume1(s, c) ==
    LET r == s.call[c].resp
    IN  IF r = "fail" THEN LoginFail(s, c, "RequestError")
        ELSE IF r = "noCookie" THEN LoginFail(s, c, "ParserError")
        ELSE IF r = "bad" THEN LoginFail(updateCookies(s, c), c, "ParserError")
        ELSE Send(updateCookies(s, c), c, "inRequest2")

\* login after the POST of the credentials
LoginResume2(s, c) ==
    LET r == s.call[c].resp
    IN  IF r = "fail" THEN LoginFail(s, c, "RequestError")
        ELSE IF r = "noCookie" THEN LoginFail(s, c, "ParserError")
        ELSE IF r = "bad" THEN LoginFail(updateCookies(s, c), c, "ParserError")
        ELSE LET s1 == verifyPageAndExtractIds(updateCookies(s, c), c)
                 s2 == [s1 EXCEPT !._loggedIn = TRUE, !.lastVisitedPageId = 1]
                 s3 == sessionTimer([s2 EXCEPT !.call[c].beat =
                                        IF s2.sessionTimerRunning
                                        THEN "running" ELSE "started"])
             IN  Finish(releaseStateLock(s3, c), c, "Ok")

\* logout after its request: the finally block
LogoutResume(s, c) ==
    LET s1 == handleLogout(s)
        caught == IF s.call[c].resp = "fail" THEN "RequestError" ELSE "Ok"
    IN  IF s1.exc # "none"
        THEN Finish(s1, c, s1.exc)
        ELSE Finish(releaseStateLock(s1, c), c, caught)

\* logout whose wait for the lock was cancelled
LogoutCancelled(s, c) ==
    LET s1 == handleLogout(teardownLockInfrastructure(s))
    IN  Finish(s1, c, Thrown(s1, "Ok"))

CallJob(s, c) ==
    LET cl == s.call[c]
    IN  CASE cl.pc = "lockWoken" -> TakeLock(s, c)
          [] cl.pc = "stableWoken" -> Retain(s, c)
          [] cl.pc = "lockCancelled" ->
                IF cl.kind = "logout" THEN LogoutCancelled(s, c)
                ELSE Finish(s, c, "LockFail")
          [] cl.pc = "stableCancelled" -> Finish(s, c, "StableFail")
          [] cl.pc = "gotResp" ->
                IF cl.kind = "logout" THEN LogoutResume(s, c)
                ELSE FetchResume(s, c)
          [] cl.pc = "gotResp1" -> LoginResume1(s, c)
          [] cl.pc = "gotResp2" -> LoginResume2(s, c)

\* the loop with a resetTimeout that reports a failed request as success
TimerJob_FailureIgnored(s) ==
    LET stop == [s EXCEPT !.sessionTimerRunning = FALSE, !.timer = "off",
                          !.loops = @ - 1]
    IN  CASE s.timer = "cancelled" -> stop
          [] s.timer = "elapsed" ->
                IF ~loggedIn(s) THEN stop
                ELSE [s EXCEPT !.timer = "inRequest", !.resetFor = Logins(s)]
          [] s.timer = "respOk" ->
                StartWait(updateCookies([s EXCEPT !.resetFor = {}], HB))
          [] s.timer = "respFail" -> StartWait([s EXCEPT !.resetFor = {}])

\* the sessionTimer loop after its wait or its reset request; a loop that
\* has ended is "off", or "failed" when a failed reset request ended it
\* resetFor holds the logins that had succeeded when the reset request in
\* flight was sent
TimerJob(s) ==
    LET stop == [s EXCEPT !.sessionTimerRunning = FALSE, !.timer = "off",
                          !.loops = @ - 1]
    IN  CASE s.timer = "cancelled" -> stop
          [] s.timer = "elapsed" ->
                IF ~loggedIn(s) THEN stop
                ELSE [s EXCEPT !.timer = "inRequest", !.resetFor = Logins(s)]
          [] s.timer = "respOk" ->
                StartWait(updateCookies([s EXCEPT !.resetFor = {}], HB))
          [] s.timer = "respFail" ->
                [handleLogout(s) EXCEPT !.sessionTimerRunning = FALSE,
                                        !.timer = "failed", !.loops = @ - 1,
                                        !.resetFor = {}]

(***************************************************************************)
(* Actions                                                                 *)
(***************************************************************************)

\* a further API call is made; calls are numbered in the order they are made
CallFetchPage ==
    \E c \in Calls :
        /\ c = started + 1
        /\ started' = c
        /\ Commit(fetchPage([S EXCEPT !.call[c].kind = "fetchPage"], c, TRUE))

CallFetchPageStable ==
    \E c \in Calls :
        /\ c = started + 1
        /\ started' = c
        /\ Commit(fetchPage([S EXCEPT !.call[c].kind = "fetchPageStable"],
                            c, FALSE))

CallLogin ==
    \E c \in Calls :
        /\ c = started + 1
        /\ started' = c
        /\ Commit(login([S EXCEPT !.call[c].kind = "login"], c))

CallLogout ==
    \E c \in Calls :
        /\ c = started + 1
        /\ started' = c
        /\ Commit(logout([S EXCEPT !.call[c].kind = "logout"], c))

\* the next job of the microtask queue
RunJob ==
    /\ jobs # << >>
    /\ LET j == Head(jobs)
           s == [S EXCEPT !.jobs = Tail(@)]
       IN  Commit(IF j = HB THEN TimerJob(s) ELSE CallJob(s, j))
    /\ UNCHANGED started

ResponsesFor(cl) ==
    CASE cl.kind = "login" -> Responses
      [] cl.kind = "fetchPage" -> {"ok", "fail", "bad"}
      [] OTHER -> {"ok", "fail"}

\* the response of a call's request arrives
Respond ==
    /\ jobs = << >>
    /\ \E c \in Calls :
         /\ call[c].pc \in {"inRequest", "inRequest1", "inRequest2"}
         /\ \E r \in ResponsesFor(call[c]) :
              call' = [call EXCEPT ![c].resp = r,
                         ![c].pc = CASE @ = "inRequest" -> "gotResp"
                                     [] @ = "inRequest1" -> "gotResp1"
                                     [] @ = "inRequest2" -> "gotResp2"]
         /\ jobs' = << c >>
    /\ UNCHANGED << id, transId, lastVisitedPageId, visitedPageIds, cookies,
                    _loggedIn, stateLock, stateLockQueue, stateChanging,
                    stableStateListeners, stableStateRetainCount,
                    sessionTimerRunning, waitKey, waitCancelMap, timer,
                    loops, resetFor, started, arg, ret >>

\* the response of the reset-timeout request arrives; a response without
\* Set-Cookie header makes updateCookies throw into the same catch
TimerRespond ==
    /\ jobs = << >>
    /\ timer = "inRequest"
    /\ \E r \in {"respOk", "respFail"} : timer' = r
    /\ jobs' = << HB >>
    /\ UNCHANGED << id, transId, lastVisitedPageId, visitedPageIds, cookies,
                    _loggedIn, stateLock, stateLockQueue, stateChanging,
                    stableStateListeners, stableStateRetainCount,
                    sessionTimerRunning, waitKey, waitCancelMap, loops, resetFor,
                    call, started, arg, ret >>

\* the 25 minutes of wait() elapse
TimerFire ==
    /\ jobs = << >>
    /\ timer = "waiting"
    /\ waitCancelMap # {}
    /\ waitCancelMap' = {}
    /\ timer' = "elapsed"
    /\ jobs' = << HB >>
    /\ UNCHANGED << id, transId, lastVisitedPageId, visitedPageIds, cookies,
                    _loggedIn, stateLock, stateLockQueue, stateChanging,
                    stableStateListeners, stableStateRetainCount,
                    sessionTimerRunning, waitKey, loops, resetFor, call, started,
                    arg, ret >>

Next ==
    \/ CallFetchPage
    \/ CallFetchPageStable
    \/ CallLogin
    \/ CallLogout
    \/ RunJob
    \/ Respond
    \/ TimerRespond
    \/ TimerFire

Spec == Init /\ [][Next]_vars

TypeOK ==
    /\ stateLock \in Calls \cup {NoLock, Placeholder}
    /\ started \in 0..MaxCalls
    /\ timer \in {"off", "failed", "waiting", "elapsed", "cancelled",
                  "inRequest", "respOk", "respFail"}
    /\ loops \in 0..1
    /\ resetFor \subseteq Calls
    /\ waitCancelMap # {} => timer = "waiting" /\ waitKey = Key

(***************************************************************************)
(* Cookie handling: the scanner of updateCookies.  A string is a sequence  *)
(* of characters; the jar is a set of <<name, value>> pairs with one pair  *)
(* per name.                                                               *)
(***************************************************************************)

MaxEntries == 2                  \* cookie entries in a Set-Cookie header
MaxAttrs == 1                    \* attributes of one cookie entry

\* the Session is not touched by a call of a pure function
sessionVars == << id, transId, lastVisitedPageId, visitedPageIds, cookies,
                  _loggedIn, stateLock, stateLockQueue, stateChanging,
                  stableStateListeners, stableStateRetainCount,
                  sessionTimerRunning, waitKey, waitCancelMap, timer, loops, resetFor,
                  call, jobs, started >>

\* String.prototype.trim
RECURSIVE TrimLeft(_)
TrimLeft(str) ==
    IF str # << >> /\ Head(str) = " " THEN TrimLeft(Tail(str)) ELSE str

RECURSIVE TrimRight(_)
TrimRight(str) ==
    IF str # << >> /\ str[Len(str)] = " "
    THEN TrimRight(SubSeq(str, 1, Len(str) - 1))
    ELSE str

trim(str) == TrimRight(TrimLeft(str))

\* /(^.*?)([;=,])/.exec(rawHeaders): the position of the first delimiter at
\* or after position i, 0 when there is none (null)
RECURSIVE FirstDelimiter(_, _)
FirstDelimiter(rawHeaders, i) ==
    IF i > Len(rawHeaders) THEN 0
    ELSE IF rawHeaders[i] \in {";", "=", ","} THEN i
    ELSE FirstDelimiter(rawHeaders, i + 1)

\* this.cookies[key] = value
Put(jar, key, value) == {p \in jar : p[1] # key} \cup {<< key, value >>}

\* let key = undefined
Undefined == << "undefined" >>
\* resp.headers['set-cookie'] of a response without that header
Missing == << "missing" >>

\* one iteration of the while loop with what ends a value always storing it
ScanStep_IgnoresMetadata(st) ==
    LET p == FirstDelimiter(st.rawHeaders, 1)
        match1 == SubSeq(st.rawHeaders, 1, p - 1)
        match2 == st.rawHeaders[p]
        rest == trim(SubSeq(st.rawHeaders, p + 1, Len(st.rawHeaders)))
    IN  IF st.key = Undefined
        THEN [st EXCEPT !.rawHeaders = rest, !.key = match1]
        ELSE [st EXCEPT !.rawHeaders = rest,
                        !.cookies = IF match2 # "="
                                    THEN Put(@, trim(st.key), trim(match1))
                                    ELSE @,
                        !.key = Undefined,
                        !.metadata = (match2 # ",")]

\* one iteration of the while loop of updateCookies
ScanStep(st) ==
    LET p == FirstDelimiter(st.rawHeaders, 1)
        match1 == SubSeq(st.rawHeaders, 1, p - 1)
        match2 == st.rawHeaders[p]
        rest == trim(SubSeq(st.rawHeaders, p + 1, Len(st.rawHeaders)))
    IN  IF st.key = Undefined
        THEN [st EXCEPT !.rawHeaders = rest, !.key = match1]
        ELSE [st EXCEPT !.rawHeaders = rest,
                        !.cookies = IF match2 # "=" /\ ~st.metadata
                                    THEN Put(@, trim(st.key), trim(match1))
                                    ELSE @,
                        !.key = Undefined,
                        !.metadata = (match2 # ",")]

RECURSIVE Scan(_)
Scan(st) ==
    IF FirstDelimiter(st.rawHeaders, 1) = 0 THEN st ELSE Scan(ScanStep(st))

\* updateCookies(resp) on the jar `jar`, rawHeaders being the header value
updateCookiesOf(jar, rawHeaders) ==
    IF rawHeaders = Missing \/ rawHeaders = << >>
    THEN [done |-> TRUE, exc |-> "ParserException", cookies |-> jar]
    ELSE [done |-> TRUE, exc |-> "none",
          cookies |-> Scan([rawHeaders |-> rawHeaders, key |-> Undefined,
                            metadata |-> FALSE, cookies |-> jar]).cookies]

\* header values: cookie entries name=value with attributes
Names == { << "a" >>, << "b" >> }
Values == { << "1" >>, << "2" >> }
Attributes == { << "P", "a", "t", "h", "=", "/" >>,
                << "S", "e", "c", "u", "r", "e" >> }

SeqsUpTo(X, n) == UNION { [1..k -> X] : k \in 0..n }

Entries == [name : Names, value : Values, attrs : SeqsUpTo(Attributes, MaxAttrs)]

\* a=1; Path=/; b=2, c=3; Secure
ExampleEntries ==
    << [name |-> << "a" >>, value |-> << "1" >>,
        attrs |-> << << "P", "a", "t", "h", "=", "/" >>, << "b", "=", "2" >> >>],
       [name |-> << "c" >>, value |-> << "3" >>,
        attrs |-> << << "S", "e", "c", "u", "r", "e" >> >>] >>

Example ==
    << "a", "=", "1", ";", " ", "P", "a", "t", "h", "=", "/", ";", " ",
       "b", "=", "2", ",", " ", "c", "=", "3", ";", " ",
       "S", "e", "c", "u", "r", "e" >>

RECURSIVE RenderAttrs(_, _)
RenderAttrs(attrs, sp) ==
    IF attrs = << >> THEN << >>
    ELSE << ";" >> \o sp \o Head(attrs) \o RenderAttrs(Tail(attrs), sp)

RenderEntry(e, sp) ==
    e.name \o << "=" >> \o e.value \o RenderAttrs(e.attrs, sp)

\* the entries joined with `,` as request() joins the Set-Cookie headers
RECURSIVE Render(_, _)
Render(entries, sp) ==
    IF Len(entries) = 1 THEN RenderEntry(entries[1], sp)
    ELSE RenderEntry(entries[1], sp) \o << "," >> \o sp
            \o Render(Tail(entries), sp)

CookieCalls ==
    { [fn |-> "updateCookies", jar |-> jar, entries |-> e, header |-> Render(e, sp)] :
          jar \in { {}, { << << "a" >>, << "9" >> >> } },
          e \in (SeqsUpTo(Entries, MaxEntries) \ { << >> }) \cup { ExampleEntries },
          sp \in { << >>, << " " >> } }
    \cup { [fn |-> "updateCookies", jar |-> {}, entries |-> << >>,
            header |-> Missing] }

CookieInit ==
    /\ SessionInit
    /\ arg \in CookieCalls
    /\ ret = NoResult

UpdateCookiesCall ==
    /\ arg.fn = "updateCookies"
    /\ ~ret.done
    /\ ret' = updateCookiesOf(arg.jar, arg.header)
    /\ UNCHANGED << arg, sessionVars >>

CookieNext == UpdateCookiesCall

CookieSpec == CookieInit /\ [][CookieNext]_vars

(***************************************************************************)
(* Diffing.  A record is an object with its own identity (ref), its $type  *)
(* (NoType when it has no such property, as the records of the parsers),   *)
(* and the values of its identity keys (idk) and compare keys (cmp).  A    *)
(* value is a string or number, or an object (a Date) with an identity of  *)
(* its own.                                                                *)
(***************************************************************************)

MaxRecords == 2                  \* records in one snapshot

NoType == -1                     \* !('$type' in first)
TEACHER == 0                     \* identity keys: strings
TRANSACTION == 2                 \* identity keys: a Date and a string
ObjectType == 0..8

\* first === second on values: objects by identity, the others by value
StrictEquals(x, y) ==
    IF x.typeof = "object" THEN x.obj = y.obj ELSE x.v = y.v

\* same(first, second) on the value of a key; a Date has no $type
sameValue(x, y) ==
    IF x.typeof # y.typeof THEN FALSE
    ELSE IF StrictEquals(x, y) THEN TRUE
    ELSE FALSE

\* same(first, second) on two records
same(first, second) ==
    IF first.ref = second.ref THEN TRUE
    ELSE IF first.type = NoType \/ first.type # second.type
              \/ first.type \notin ObjectType
         THEN FALSE
         ELSE sameValue(first.idk, second.idk)

\* equal(first, second) on two records
equal(first, second) ==
    IF ~same(first, second) THEN FALSE
    ELSE sameValue(first.cmp, second.cmp)

\* the inner for loop: the first index from secondIndex on whose record is
\* the same as `first`, 0 when there is none
RECURSIVE FirstSame(_, _, _)
FirstSame(first, secondArray, secondIndex) ==
    IF secondIndex > Len(secondArray) THEN 0
    ELSE IF same(first, secondArray[secondIndex]) THEN secondIndex
    ELSE FirstSame(first, secondArray, secondIndex + 1)

\* the records of a list
Elements(list) == { list[k] : k \in DOMAIN list }

\* array.splice(index, 1)
Splice(array, index) ==
    SubSeq(array, 1, index - 1) \o SubSeq(array, index + 1, Len(array))

\* the outer loop with the matched record left in secondArray
RECURSIVE DiffLoop_KeepsSecond(_)
DiffLoop_KeepsSecond(st) ==
    IF st.firstIndex > Len(st.firstArray) THEN st
    ELSE LET first == st.firstArray[st.firstIndex]
             secondIndex == FirstSame(first, st.secondArray, 1)
         IN  IF secondIndex = 0
             THEN DiffLoop_KeepsSecond([st EXCEPT !.firstIndex = @ + 1])
             ELSE LET second == st.secondArray[secondIndex]
                  IN  DiffLoop_KeepsSecond(
                        [st EXCEPT
                           !.modified = IF ~equal(first, second)
                                        THEN Append(@, << first, second >>)
                                        ELSE @,
                           !.paired = Append(@, << first, second >>),
                           !.firstArray = Splice(@, st.firstIndex)])

\* the outer for loop of diff, firstIndex counted from 1; paired lists the
\* pairs that were spliced out, modified or not
RECURSIVE DiffLoop(_)
DiffLoop(st) ==
    IF st.firstIndex > Len(st.firstArray) THEN st
    ELSE LET first == st.firstArray[st.firstIndex]
             secondIndex == FirstSame(first, st.secondArray, 1)
         IN  IF secondIndex = 0
             THEN DiffLoop([st EXCEPT !.firstIndex = @ + 1])
             ELSE LET second == st.secondArray[secondIndex]
                  IN  DiffLoop(
                        [st EXCEPT
                           !.modified = IF ~equal(first, second)
                                        THEN Append(@, << first, second >>)
                                        ELSE @,
                           !.paired = Append(@, << first, second >>),
                           !.firstArray = Splice(@, st.firstIndex),
                           !.secondArray = Splice(@, secondIndex)])

diff(initial, updated) ==
    LET st == DiffLoop([firstArray |-> initial, secondArray |-> updated,
                        firstIndex |-> 1, modified |-> << >>,
                        paired |-> << >>])
    IN  [done |-> TRUE, added |-> st.secondArray, modified |-> st.modified,
         removed |-> st.firstArray, paired |-> st.paired]

\* the snapshots: lists of records of one type, each record and each Date
\* an object of its own
Shapes == [idk : 1..2, cmp : 1..2]

MakeRecords(shapes, type, base) ==
    [i \in 1..Len(shapes) |->
        [ref |-> base + i, type |-> type,
         idk |-> IF type = TRANSACTION
                 THEN [typeof |-> "object", v |-> shapes[i].idk, obj |-> base + i]
                 ELSE [typeof |-> "string", v |-> shapes[i].idk, obj |-> 0],
         cmp |-> [typeof |-> "string", v |-> shapes[i].cmp, obj |-> 0]]]

DiffCalls ==
    { [fn |-> "diff", initial |-> MakeRecords(i, type, 0),
       updated |-> MakeRecords(u, type, 10)] :
          i \in SeqsUpTo(Shapes, MaxRecords), u \in SeqsUpTo(Shapes, MaxRecords),
          type \in {NoType, TEACHER, TRANSACTION} }

DiffInit ==
    /\ SessionInit
    /\ arg \in DiffCalls
    /\ ret = NoResult

DiffCall ==
    /\ arg.fn = "diff"
    /\ ~ret.done
    /\ ret' = diff(arg.initial, arg.updated)
    /\ UNCHANGED << arg, sessionVars >>

DiffNext == DiffCall

DiffSpec == DiffInit /\ [][DiffNext]_vars

(***************************************************************************)
(* Linking.  link relates the records of a user by their natural keys:     *)
(* subjects to teachers by the teacher's abbreviation, the third part of   *)
(* the subject's abbreviation; grades to subjects by id; open absences and *)
(* absence reports to subjects by abbreviation; absence reports to         *)
(* absences by id.  The records are changed in place, and the lists of the *)
(* input are copied to the result at the end, so a later call of link      *)
(* works on the records an earlier one has linked.  A list of ids that was *)
(* never assigned is the empty list.                                       *)
(***************************************************************************)

MaxReports == 2                  \* absence reports in one input
MaxLinks == 2                    \* calls of link on the same records

AbsenceIds == 1..2
\* subject abbreviations, split at '-': with and without a teacher's part
Abbreviations == { << "M", "1a", "T" >>, << "P" >> }
NoId == 0                        \* an id that was never assigned

LinkerException(section) ==
    [type |-> "LinkerException", section |-> section, level |-> "Fatal"]

\* table[key]: the last record of the list that was stored under the key,
\* 0 when there is none
Last(indices) ==
    IF indices = {} THEN 0
    ELSE CHOOSE k \in indices : \A l \in indices : l <= k

teacherTable(user, abbreviation) ==
    Last({ k \in DOMAIN user.teachers :
             user.teachers[k].abbreviation = abbreviation })

subjectTable(user, abbreviation) ==
    Last({ k \in DOMAIN user.subjects :
             user.subjects[k].abbreviation = abbreviation })

subjectIdTable(user, subjectId) ==
    Last({ k \in DOMAIN user.subjects : user.subjects[k].id = subjectId })

absenceIdTable(user, absenceId) ==
    Last({ k \in DOMAIN user.absences : user.absences[k].id = absenceId })

\* one pass of the loop over user.subjects
LinkSubject(st, k) ==
    LET subject == st.subjects[k]
        parts == subject.abbreviation
    IN  IF parts = << >> \/ Len(parts) < 3
        THEN [st EXCEPT !.exceptions = Append(@, LinkerException("Subjects"))]
        ELSE LET teacher == teacherTable(st, parts[3])
             IN  IF teacher = 0 THEN st
                 ELSE [st EXCEPT
                         !.subjects[k].teacherId = st.teachers[teacher].id,
                         !.teachers[teacher].subjectIds = Append(@, subject.id)]

RECURSIVE LinkSubjects(_, _)
LinkSubjects(st, k) ==
    IF k > Len(st.subjects) THEN st
    ELSE LinkSubjects(LinkSubject(st, k), k + 1)

\* one pass of the loop over user.grades
LinkGrade(st, k) ==
    LET grade == st.grades[k]
        subject == subjectIdTable(st, grade.subjectId)
    IN  IF subject = 0
        THEN [st EXCEPT !.exceptions = Append(@, LinkerException("Grades"))]
        ELSE [st EXCEPT !.subjects[subject].gradeIds = Append(@, grade.id)]

RECURSIVE LinkGrades(_, _)
LinkGrades(st, k) ==
    IF k > Len(st.grades) THEN st
    ELSE LinkGrades(LinkGrade(st, k), k + 1)

\* one pass of the loop over user.openAbsences
LinkOpenAbsence(st, k) ==
    LET openAbsence == st.openAbsences[k]
        subject == subjectTable(st, openAbsence.lessonAbbreviation)
    IN  IF subject = 0 THEN st
        ELSE [st EXCEPT
                !.openAbsences[k].subjectId = st.subjects[subject].id,
                !.subjects[subject].openAbsenceIds = Append(@, openAbsence.id)]

RECURSIVE LinkOpenAbsences(_, _)
LinkOpenAbsences(st, k) ==
    IF k > Len(st.openAbsences) THEN st
    ELSE LinkOpenAbsences(LinkOpenAbsence(st, k), k + 1)

\* one pass of the loop over user.absenceReports with the subject's side of
\* the relation of absences and subjects left out
LinkAbsenceReport_OneSided(st, k) ==
    LET absenceReport == st.absenceReports[k]
        subject == subjectTable(st, absenceReport.lessonAbbreviation)
        absence == absenceIdTable(st, absenceReport.absenceId)
        st1 == IF subject # 0
               THEN [st EXCEPT
                       !.subjects[subject].absenceReportIds =
                            Append(@, absenceReport.id),
                       !.absenceReports[k].subjectId = st.subjects[subject].id]
               ELSE st
    IN  IF absence = 0
        THEN [st1 EXCEPT !.exceptions =
                 Append(@, LinkerException("AbsenceReports"))]
        ELSE LET st2 == [st1 EXCEPT
                           !.absences[absence].absenceReportIds =
                              Append(@, absenceReport.id),
                           !.absenceReports[k].absenceId = st1.absences[absence].id]
             IN  IF subject # 0
                    /\ st2.subjects[subject].id
                          \notin Elements(st2.absences[absence].subjectIds)
                 THEN [st2 EXCEPT
                         !.absences[absence].subjectIds =
                              Append(@, st2.subjects[subject].id)]
                 ELSE st2

\* one pass of the loop over user.absenceReports
LinkAbsenceReport(st, k) ==
    LET absenceReport == st.absenceReports[k]
        subject == subjectTable(st, absenceReport.lessonAbbreviation)
        absence == absenceIdTable(st, absenceReport.absenceId)
        st1 == IF subject # 0
               THEN [st EXCEPT
                       !.subjects[subject].absenceReportIds =
                            Append(@, absenceReport.id),
                       !.absenceReports[k].subjectId = st.subjects[subject].id]
               ELSE st
    IN  IF absence = 0
        THEN [st1 EXCEPT !.exceptions =
                 Append(@, LinkerException("AbsenceReports"))]
        ELSE LET st2 == [st1 EXCEPT
                           !.absences[absence].absenceReportIds =
                              Append(@, absenceReport.id),
                           !.absenceReports[k].absenceId = st1.absences[absence].id]
             IN  IF subject # 0
                    /\ st2.subjects[subject].id
                          \notin Elements(st2.absences[absence].subjectIds)
                 THEN [st2 EXCEPT
                         !.absences[absence].subjectIds =
                              Append(@, st2.subjects[subject].id),
                         !.subjects[subject].absenceIds =
                              Append(@, st2.absences[absence].id)]
                 ELSE st2

RECURSIVE LinkAbsenceReports(_, _)
LinkAbsenceReports(st, k) ==
    IF k > Len(st.absenceReports) THEN st
    ELSE LinkAbsenceReports(LinkAbsenceReport(st, k), k + 1)

\* result = new LinkResult(); the loops; Object.assign(result, user)
link(user) ==
    LET st0 == [exceptions |-> << >>, teachers |-> user.teachers,
                subjects |-> user.subjects, grades |-> user.grades,
                openAbsences |-> user.openAbsences, absences |-> user.absences,
                absenceReports |-> user.absenceReports]
        st1 == LinkSubjects(st0, 1)
        st2 == LinkGrades(st1, 1)
        st3 == LinkOpenAbsences(st2, 1)
    IN  LinkAbsenceReports(st3, 1)

\* the records as the parsers return them
Teachers ==
    { << >>,
      << [id |-> 51, abbreviation |-> "T", subjectIds |-> << >>] >> }

MakeSubjects(abbreviations) ==
    [k \in 1..Len(abbreviations) |->
        [id |-> 10 + k, abbreviation |-> abbreviations[k], teacherId |-> NoId,
         gradeIds |-> << >>, openAbsenceIds |-> << >>,
         absenceReportIds |-> << >>, absenceIds |-> << >>]]

Subjects ==
    { MakeSubjects(a) : a \in { << >>, << << "M", "1a", "T" >> >>, << << "P" >> >>,
                                << << "M", "1a", "T" >>, << "P" >> >> } }

\* a grade carries the id of the subject it was parsed with
Grades == { << >> } \cup { << [id |-> 31, subjectId |-> s] >> : s \in {11, 19} }

OpenAbsences ==
    { << >>,
      << [id |-> 41, lessonAbbreviation |-> << "M", "1a", "T" >>,
          subjectId |-> NoId] >> }

MakeAbsences(ids) ==
    [k \in 1..Len(ids) |->
        [id |-> ids[k], absenceReportIds |-> << >>, subjectIds |-> << >>]]

Absences == { MakeAbsences(i) : i \in { << >>, << 1 >>, << 2 >>, << 1, 2 >> } }

ReportShapes == [absenceId : AbsenceIds, lessonAbbreviation : Abbreviations]

MakeReports(shapes) ==
    [k \in 1..Len(shapes) |->
        [id |-> 20 + k, absenceId |-> shapes[k].absenceId,
         lessonAbbreviation |-> shapes[k].lessonAbbreviation,
         subjectId |-> NoId]]

LinkCalls ==
    { [fn |-> "link",
       user |-> [teachers |-> t, subjects |-> s, grades |-> g,
                 openAbsences |-> o, absences |-> a,
                 absenceReports |-> MakeReports(r)]] :
          t \in Teachers, s \in Subjects, g \in Grades, o \in OpenAbsences,
          a \in Absences, r \in SeqsUpTo(ReportShapes, MaxReports) }

LinkInit ==
    /\ SessionInit
    /\ arg \in LinkCalls
    /\ ret = NoResult

\* link(user) on freshly parsed records
LinkCall ==
    /\ arg.fn = "link"
    /\ ~ret.done
    /\ ret' = [done |-> TRUE, links |-> 1, result |-> link(arg.user)]
    /\ UNCHANGED << arg, sessionVars >>

\* link({ ...user, ...parsed }), link(user): the records of an earlier call
LinkAgain ==
    /\ arg.fn = "link"
    /\ ret.done
    /\ ret.links < MaxLinks
    /\ ret' = [done |-> TRUE, links |-> ret.links + 1, result |-> link(ret.result)]
    /\ UNCHANGED << arg, sessionVars >>

LinkNext == LinkCall \/ LinkAgain

LinkSpec == LinkInit /\ [][LinkNext]_vars

(***************************************************************************)
(* Parsers.  parseTeachers reads one record per line; parseGrades reads a  *)
(* subject row, the detail rows that follow it with the table of its       *)
(* grades, and an optional row with the course of its grades.  A line or   *)
(* row carries what the assertions look at: the number of quoted fields of *)
(* a line, whether a row has the shape of a subject row (five cells, one   *)
(* <b>, the <a> list), and the cells of each row of a grades table.        *)
(***************************************************************************)

MaxRows == 2                     \* lines of a teacher list, subjects of a page

ParserException == [type |-> "ParserException", level |-> "Fatal"]

\* the while loop of parseTeachers over the lines after the heading
RECURSIVE ParseLines(_, _)
ParseLines(result, lines) ==
    IF lines = << >> THEN result
    ELSE LET line == Head(lines)
         IN  IF line.matches # 4
             THEN ParseLines([result EXCEPT !.exceptions =
                                 Append(@, ParserException)], Tail(lines))
             ELSE ParseLines([result EXCEPT !.teachers =
                                 Append(@, [from |-> line])], Tail(lines))

parseTeachers(content) ==
    IF content = << >>
    THEN [done |-> TRUE, teachers |-> << >>,
          exceptions |-> << [type |-> "ParserException", level |-> "Error"] >>]
    ELSE ParseLines([done |-> TRUE, teachers |-> << >>, exceptions |-> << >>],
                    Tail(content))

\* the rows of the grades tables of the detail rows from subjectRowIndex + 1
\* on, and the index of the last detail row
RECURSIVE DetailRows(_, _, _)
DetailRows(subjectRows, subjectRowIndex, gradeRows) ==
    IF /\ subjectRowIndex + 1 <= Len(subjectRows)
       /\ subjectRows[subjectRowIndex + 1].class = "detailrow"
    THEN DetailRows(subjectRows, subjectRowIndex + 1,
                    gradeRows \o subjectRows[subjectRowIndex + 1].table)
    ELSE [subjectRowIndex |-> subjectRowIndex, gradeRows |-> gradeRows]

\* the loop over the grade rows of one subject, each in a try of its own
RECURSIVE ParseGradeRows(_, _, _)
ParseGradeRows(result, gradeRows, gradeRowIndex) ==
    IF gradeRowIndex > Len(gradeRows) THEN result
    ELSE LET gradeFields == gradeRows[gradeRowIndex].cells
         IN  IF gradeFields = 2 /\ gradeRowIndex = Len(gradeRows)
             THEN ParseGradeRows(result, gradeRows, gradeRowIndex + 1)
             ELSE IF gradeFields # 4
             THEN ParseGradeRows([result EXCEPT !.exceptions =
                                     Append(@, ParserException)],
                                 gradeRows, gradeRowIndex + 1)
             ELSE ParseGradeRows([result EXCEPT !.grades =
                                     Append(@, [from |-> gradeRows[gradeRowIndex]])],
                                 gradeRows, gradeRowIndex + 1)

\* one pass of the loop over the subject rows: the result and the index the
\* pass ends with
ParseSubjectRow(result, subjectRows, subjectRowIndex) ==
    LET subjectRow == subjectRows[subjectRowIndex]
    IN  IF ~subjectRow.subjectShape
        THEN [result |-> [result EXCEPT !.exceptions = Append(@, ParserException)],
              subjectRowIndex |-> subjectRowIndex]
        ELSE LET pushed == [result EXCEPT !.subjects =
                               Append(@, [from |-> subjectRow])]
                 d == DetailRows(subjectRows, subjectRowIndex, << >>)
             IN  IF Len(d.gradeRows) = 1
                 THEN [result |-> [pushed EXCEPT !.exceptions =
                                      Append(@, ParserException)],
                       subjectRowIndex |-> d.subjectRowIndex]
                 ELSE [result |-> IF d.gradeRows = << >> THEN pushed
                                  ELSE ParseGradeRows(pushed, Tail(d.gradeRows), 1),
                       subjectRowIndex |->
                          IF /\ d.subjectRowIndex + 1 <= Len(subjectRows)
                             /\ subjectRows[d.subjectRowIndex + 1].class = "verlauf"
                          THEN d.subjectRowIndex + 1
                          ELSE d.subjectRowIndex]

RECURSIVE ParseSubjectRows(_, _, _)
ParseSubjectRows(result, subjectRows, subjectRowIndex) ==
    IF subjectRowIndex > Len(subjectRows) THEN result
    ELSE LET pass == ParseSubjectRow(result, subjectRows, subjectRowIndex)
         IN  ParseSubjectRows(pass.result, subjectRows, pass.subjectRowIndex + 1)

parseGrades(content) ==
    IF content = << >>
    THEN [done |-> TRUE, subjects |-> << >>, grades |-> << >>,
          exceptions |-> << [type |-> "ParserException", level |-> "Error"] >>]
    ELSE ParseSubjectRows([done |-> TRUE, subjects |-> << >>, grades |-> << >>,
                           exceptions |-> << >>],
                          Tail(content), 1)

\* the inputs: a heading and up to MaxRows lines, or a heading row and up
\* to MaxRows subjects, each with or without a detail row and a course row
Heading == [class |-> "heading"]

Lines == [matches : {3, 4}]

MakeLines(lines) ==
    << Heading >> \o [k \in 1..Len(lines) |-> [n |-> k, matches |-> lines[k].matches]]

\* the cells of the rows of a grades table, its heading row first
Tables == { << >>, << 4 >>, << 4, 4 >>, << 4, 3 >> }

Groups ==
    { g \in [subjectShape : BOOLEAN, detail : {"none", "plain", "subjectlike"},
             table : Tables, verlauf : BOOLEAN] :
         g.detail = "none" => g.table = << >> }

MakeRows(g, n) ==
    << [class |-> "subject", group |-> n, subjectShape |-> g.subjectShape,
        table |-> << >>] >>
    \o (IF g.detail = "none" THEN << >>
        ELSE << [class |-> "detailrow", group |-> n,
                 subjectShape |-> (g.detail = "subjectlike"),
                 table |-> [k \in 1..Len(g.table) |->
                              [group |-> n, row |-> k, cells |-> g.table[k]]]] >>)
    \o (IF g.verlauf
        THEN << [class |-> "verlauf", group |-> n, subjectShape |-> FALSE,
                 table |-> << >>] >>
        ELSE << >>)

RECURSIVE MakePage(_, _)
MakePage(groups, n) ==
    IF n > Len(groups) THEN << >>
    ELSE MakeRows(groups[n], n) \o MakePage(groups, n + 1)

ParserCalls ==
    { [fn |-> "parseTeachers", lines |-> l, content |-> MakeLines(l)] :
          l \in SeqsUpTo(Lines, MaxRows) }
    \cup { [fn |-> "parseGrades", groups |-> g,
            content |-> << Heading >> \o MakePage(g, 1)] :
              g \in SeqsUpTo(Groups, MaxRows) }
    \cup { [fn |-> f, lines |-> << >>, groups |-> << >>, content |-> << >>] :
              f \in {"parseTeachers", "parseGrades"} }

ParserInit ==
    /\ SessionInit
    /\ arg \in ParserCalls
    /\ ret = NoResult

ParseTeachersCall ==
    /\ arg.fn = "parseTeachers"
    /\ ~ret.done
    /\ ret' = parseTeachers(arg.content)
    /\ UNCHANGED << arg, sessionVars >>

ParseGradesCall ==
    /\ arg.fn = "parseGrades"
    /\ ~ret.done
    /\ ret' = parseGrades(arg.content)
    /\ UNCHANGED << arg, sessionVars >>

ParserNext == ParseTeachersCall \/ ParseGradesCall

ParserSpec == ParserInit /\ [][ParserNext]_vars

(***************************************************************************)
(* Vocabulary of the properties                                            *)
(***************************************************************************)

IsFetch(c) == call[c].kind \in FetchKinds
Done(c) == call[c].pc = "done"
\* between sending the request and the arrival of its response
InRequest(c) == call[c].pc \in {"inRequest", "inRequest1", "inRequest2"}
Suspended(c) == call[c].pc \in {"lockWait", "stableWait"}
Cancelled(c) == call[c].pc \in {"lockCancelled", "stableCancelled"}
\* the step is the synchronous part of call c
Starts(c) == call[c].pc = "idle" /\ call'[c].pc # "idle"
\* the step is the continuation of call c after a response
Resumes(c) == call[c].pc \in {"gotResp", "gotResp1", "gotResp2"}
                 /\ call'[c].pc # call[c].pc
\* the step wakes call c from the lock queue with a grant
Granted(c) == call[c].pc = "lockWait" /\ call'[c].pc = "lockWoken"
\* position of call c in the lock queue
RECURSIVE IndexOf(_, _)
IndexOf(q, c) == IF q = << >> THEN 0
                 ELSE IF Head(q) = c THEN 1
                 ELSE 1 + IndexOf(Tail(q), c)
\* no request is in flight and no continuation is ready to run
Quiet == /\ jobs = << >>
         /\ timer # "inRequest"
         /\ \A c \in Calls : ~InRequest(c)

(***************************************************************************)
(* C1: at most one fetchPage(changesState=true) is between sending its GET *)
(* request and receiving the response at any moment, in every interleaving *)
(* of calls, also of calls that arrive after a waiter has been woken and   *)
(* before it has resumed.                                                  *)
(***************************************************************************)
C1_OneStateChangingRequest ==
    \A c, d \in Calls :
        (call[c].kind = "fetchPage" /\ call[d].kind = "fetchPage"
            /\ InRequest(c) /\ InRequest(d)) => c = d

(***************************************************************************)
(* C2: no fetchPage(changesState=false) is inside its network call while a *)
(* fetchPage(changesState=true) is inside its network call, and a          *)
(* stable-state request suspended behind an exclusive holder is not woken  *)
(* before that holder has released.                                        *)
(***************************************************************************)
C2_NoOverlap ==
    \A c, d \in Calls :
        ~(call[c].kind = "fetchPage" /\ call[d].kind = "fetchPageStable"
            /\ InRequest(c) /\ InRequest(d))

C2_StaysSuspended ==
    \A c \in Calls :
        (call[c].pc = "stableWait" /\ call'[c].pc = "stableWoken") =>
            \A d \in Calls :
                ~(call'[d].kind = "fetchPage" /\ call'[d].pc = "inRequest")

C2_StableExcludesExclusive == []C2_NoOverlap /\ [][C2_StaysSuspended]_vars

(***************************************************************************)
(* C3: when logout runs forcefullyAcquireStateLock, every caller suspended *)
(* in the lock queue or the stable-state queue is woken with a failure; a  *)
(* cancelled caller never obtains the lock or a stable-state slot, and the *)
(* fetchPage or login that made the request fails without having sent a    *)
(* request.                                                                *)
(***************************************************************************)
ForcefulLogoutStarts ==
    \E c \in Calls : Starts(c) /\ call'[c].kind = "logout" /\ loggedIn(S)

CancelledFails ==
    \A c \in Calls :
        call[c].cancelled =>
            /\ Cancelled(c) \/ Done(c)
            /\ ~call[c].took
            /\ call[c].sent = 0
            /\ (Done(c) /\ call[c].kind # "logout") =>
                   call[c].result \in {"LockFail", "StableFail"}

C3_ForcefulCancelsWaiters ==
    [][ /\ ForcefulLogoutStarts =>
              \A d \in Calls : Suspended(d) => Cancelled(d)'
        /\ CancelledFails' ]_vars

C3_Witness ==
    \E c, d \in Calls :
        /\ call[c].kind = "logout" /\ call[c].took
        /\ call[d].kind \in {"fetchPage", "fetchPageStable", "login"}
        /\ call[d].cancelled /\ Done(d)

(***************************************************************************)
(* C4: a logout() called on a logged-in Session completes once the         *)
(* requests in flight have returned: a logout is never left suspended in   *)
(* the lock queue when no request is in flight and no continuation is      *)
(* ready, however many callers were queued.                                *)
(***************************************************************************)
C4_LogoutCompletes ==
    \A c \in Calls :
        (call[c].kind = "logout" /\ call[c].pc = "lockWait") => ~Quiet

(***************************************************************************)
(* C5: the Session never deadlocks: once every request in flight has       *)
(* returned, the state lock is free and no caller is suspended in either   *)
(* queue, so that a later login() can acquire the lock.                    *)
(***************************************************************************)
C5_NoDeadlock ==
    Quiet => /\ stateLock = NoLock
             /\ stateLockQueue = << >>
             /\ stableStateListeners = << >>
             /\ \A c \in Calls : ~Suspended(c)

(***************************************************************************)
(* C6: if the GET request of a fetchPage fails, the call ends with that    *)
(* error and the session is no longer logged in; the session stays logged  *)
(* out until a login succeeds, and a fetchPage started while it is logged  *)
(* out fails its precondition at once, without taking the lock, entering   *)
(* the stable-state section or sending a request.                          *)
(***************************************************************************)
FailedFetchSurfaces ==
    \A c \in Calls :
        (IsFetch(c) /\ Resumes(c) /\ call[c].resp = "fail") =>
            /\ call'[c].result = "RequestError"
            /\ ~loggedIn(S)'

OnlyLoginLogsIn ==
    (~loggedIn(S) /\ loggedIn(S)') =>
        \E c \in Calls : call[c].kind = "login" /\ Resumes(c)
                            /\ call'[c].result = "Ok"

LoggedOutFetchFails ==
    \A c \in Calls :
        (Starts(c) /\ call'[c].kind \in FetchKinds /\ ~loggedIn(S)) =>
            /\ call'[c].pc = "done"
            /\ call'[c].result = "NotLoggedIn"
            /\ ~call'[c].took
            /\ call'[c].sent = 0
            /\ UNCHANGED << stateLock, stateLockQueue, stateChanging,
                            stableStateListeners, stableStateRetainCount >>

C6_FailedFetchLogsOut ==
    [][FailedFetchSurfaces /\ OnlyLoginLogsIn /\ LoggedOutFetchFails]_vars

(***************************************************************************)
(* C7: a login() waiting for the lock is granted it before every           *)
(* non-priority waiter that is queued at the time of the release: no       *)
(* non-priority waiter is granted the lock while a login is waiting.       *)
(***************************************************************************)
C7_PriorityFirst ==
    [][ \A c \in Calls :
          (Granted(c) /\ call[c].kind # "login") =>
              \A d \in Calls :
                  ~(call[d].kind = "login" /\ call[d].pc = "lockWait") ]_vars

(***************************************************************************)
(* C8: callers suspended in acquireStateLock are granted the lock in the   *)
(* order in which they enqueued: when one is granted, no other that        *)
(* enqueued before it is still waiting.                                    *)
(***************************************************************************)
C8_FifoOrder ==
    [][ \A c \in Calls :
          (Granted(c) /\ call[c].kind = "fetchPage") =>
              \A d \in Calls :
                  ~( /\ call[d].kind = "fetchPage"
                     /\ call[d].pc = "lockWait"
                     /\ d # c
                     /\ IndexOf(stateLockQueue, d) < IndexOf(stateLockQueue, c)
                   ) ]_vars

(***************************************************************************)
(* C9: every fetchPage gives back what it took exactly once: a call that   *)
(* took the lock or entered the stable-state section has, when it ends,    *)
(* released once (on success, request failure and verification failure),   *)
(* and not before, and no longer holds the lock; a call that failed its    *)
(* precondition or whose acquisition was cancelled has released nothing.   *)
(***************************************************************************)
C9_Counts ==
    \A c \in Calls :
        IsFetch(c) =>
            /\ (Done(c) /\ call[c].took) => call[c].rel = 1
            /\ ~Done(c) => call[c].rel = 0
            /\ ~call[c].took => call[c].rel = 0
            /\ call[c].result \in {"NotLoggedIn", "LockFail", "StableFail"}
                  => ~call[c].took
            /\ call[c].result \in {"Ok", "RequestError", "ParserError",
                                   "TypeError"} => call[c].took
            /\ Done(c) => stateLock # c

\* the release of a call hands back the lock it still holds, and takes one
\* from the retain count
C9_Release ==
    \A c \in Calls :
        (IsFetch(c) /\ call'[c].rel # call[c].rel) =>
            /\ (call[c].kind = "fetchPage" /\ stateLock = c)
                   => stateLock' = NoLock
            /\ call[c].kind = "fetchPageStable"
                   => stableStateRetainCount' = stableStateRetainCount - 1

C9_ReleasedExactlyOnce == []C9_Counts /\ [][C9_Release]_vars

C9_Witness ==
    /\ \E c \in Calls : call[c].kind = "fetchPage" /\ Done(c)
                           /\ call[c].result = "Ok" /\ call[c].rel = 1
    /\ \E c \in Calls : IsFetch(c) /\ Done(c)
                           /\ call[c].result = "RequestError" /\ call[c].rel = 1
    /\ \E c \in Calls : IsFetch(c) /\ Done(c)
                           /\ call[c].result = "NotLoggedIn" /\ call[c].rel = 0

(***************************************************************************)
(* C10: if a step of login() fails (a request, the login hash, the         *)
(* extraction of id/transid), then when login returns all session fields   *)
(* are reset, loggedIn is false, no heartbeat was started, and the caller  *)
(* receives the failure that caused the abort.                             *)
(***************************************************************************)
CauseOf(r) == IF r = "fail" THEN "RequestError" ELSE "ParserError"

C10_LoginFailureResets ==
    [][ \A c \in Calls :
          (call[c].kind = "login" /\ Resumes(c) /\ call[c].resp # "ok") =>
              /\ call'[c].pc = "done"
              /\ call'[c].result = CauseOf(call[c].resp)
              /\ id' = 0 /\ transId' = 0 /\ lastVisitedPageId' = 0
              /\ visitedPageIds' = {} /\ cookies' = {}
              /\ ~loggedIn(S)'
              /\ sessionTimerRunning' => sessionTimerRunning ]_vars

\* all session fields carry their initial values after the step
FieldsReset ==
    /\ id' = 0 /\ transId' = 0 /\ lastVisitedPageId' = 0
    /\ visitedPageIds' = {} /\ cookies' = {}

(***************************************************************************)
(* C11: when logout() on a logged-in session finishes, whether its request *)
(* succeeded or failed and whatever the heartbeat loop is doing (waiting,  *)
(* or its reset request in flight), all session fields are reset, loggedIn *)
(* is false and the state lock that logout took has been released.         *)
(***************************************************************************)
C11_LogoutResetsAndReleases ==
    [][ \A c \in Calls :
          (call[c].kind = "logout" /\ Resumes(c)) =>
              /\ call'[c].pc = "done"
              /\ FieldsReset
              /\ ~loggedIn(S)'
              /\ stateLock' # c ]_vars

(***************************************************************************)
(* C12: every login() that acquired the state lock has released it by the  *)
(* time it returns or throws: on success, on the already-logged-in early   *)
(* return taken after acquiring, and on every failure path.                *)
(***************************************************************************)
C12_LoginReleases ==
    \A c \in Calls :
        (call[c].kind = "login" /\ Done(c) /\ call[c].took) =>
            /\ call[c].relAs # "none"
            /\ stateLock # c

C12_Witness ==
    /\ \E c \in Calls : call[c].kind = "login" /\ Done(c) /\ call[c].took
                           /\ call[c].result = "Ok" /\ call[c].sent = 2
    /\ \E c \in Calls : call[c].kind = "login" /\ Done(c) /\ call[c].took
                           /\ call[c].result = "Ok" /\ call[c].sent = 0
    /\ \E c \in Calls : call[c].kind = "login" /\ Done(c) /\ call[c].took
                           /\ call[c].result \in {"RequestError", "ParserError"}
    /\ \E c \in Calls : call[c].kind = "login" /\ Done(c) /\ call[c].took
                           /\ call[c].result = "TypeError"

\* the step is the continuation of the heartbeat after a failed reset request
HeartbeatFails == timer = "respFail" /\ timer' # "respFail"

(***************************************************************************)
(* C13: if the heartbeat's reset-timeout POST fails while the session is   *)
(* logged in, the session ends up logged out with all fields cleared, and  *)
(* the loop terminates (sessionTimerRunning false) without sending a       *)
(* further reset request.                                                  *)
(***************************************************************************)
C13_FailedHeartbeatStops ==
    /\ [][ HeartbeatFails =>
              /\ FieldsReset
              /\ ~loggedIn(S)'
              /\ ~sessionTimerRunning'
              /\ timer' = "failed" /\ loops' = 0 ]_vars
    /\ [][ timer = "failed" => timer' \in {"failed", "waiting"} ]_vars
    /\ [][ (timer = "failed" /\ timer' = "waiting") =>
              \E c \in Calls : call[c].kind = "login" /\ Resumes(c) ]_vars

C13_Witness ==
    /\ timer = "failed"
    /\ ~sessionTimerRunning
    /\ ~loggedIn(S)
    /\ \E c \in Calls : call[c].kind = "login" /\ Done(c)
                           /\ call[c].result = "Ok"

(***************************************************************************)
(* C14: at most one heartbeat loop is active per Session at any time,      *)
(* across login, logout, failure teardown and re-login; a sessionTimer()   *)
(* call made while a loop is running starts nothing.                       *)
(***************************************************************************)
C14_AtMostOne ==
    /\ loops \in {0, 1}
    /\ loops = 1 <=> sessionTimerRunning
    /\ loops = 1 <=> timer \notin {"off", "failed"}

C14_CallWhileRunning ==
    \A c \in Calls :
        (call[c].beat = "none" /\ call'[c].beat = "running") =>
            UNCHANGED << timer, waitKey, waitCancelMap, loops,
                         sessionTimerRunning >>

C14_OneHeartbeatLoop == []C14_AtMostOne /\ [][C14_CallWhileRunning]_vars

C14_Witness ==
    /\ \E c \in Calls : call[c].beat = "started"
    /\ \E c \in Calls : call[c].beat = "running"
    /\ loops = 1

\* the step tears the session down (handleLogout on a logged-in session)
TearsDown == loggedIn(S) /\ ~loggedIn(S)'

(***************************************************************************)
(* C15: after any teardown (logout() or a failure-triggered handleLogout)  *)
(* the heartbeat loop's pending wait is cancelled and the loop terminates; *)
(* no reset-timeout request is sent for a session that is not logged in.   *)
(***************************************************************************)
C15_NoWaitLoggedOut == ~loggedIn(S) => waitCancelMap = {}

C15_LoopTerminates ==
    TearsDown => timer' \in {"cancelled", "off", "failed"}

C15_ResetOnlyLoggedIn ==
    (timer # "inRequest" /\ timer' = "inRequest") => loggedIn(S)

C15_TeardownStopsHeartbeat ==
    /\ []C15_NoWaitLoggedOut
    /\ [][C15_LoopTerminates]_vars
    /\ [][C15_ResetOnlyLoggedIn]_vars

(***************************************************************************)
(* C16: for fetchPage(changesState=true): if the page passes verification, *)
(* id and transId are replaced by the values on the page; if verification  *)
(* fails, the session is ended (full teardown, loggedIn false) and the     *)
(* call fails instead of returning the page.                               *)
(***************************************************************************)
C16_VerifiedOrTornDown ==
    [][ \A c \in Calls :
          (call[c].kind = "fetchPage" /\ Resumes(c)) =>
              /\ call'[c].pc = "done"
              /\ call[c].resp = "ok" =>
                    /\ id' = c /\ transId' = c
                    /\ call'[c].result = "Ok"
              /\ call[c].resp = "bad" =>
                    /\ FieldsReset
                    /\ ~loggedIn(S)'
                    /\ call'[c].result \in {"ParserError", "TypeError"} ]_vars

C16_Witness ==
    /\ \E c \in Calls : /\ call[c].kind = "fetchPage" /\ Done(c)
                           /\ call[c].result = "Ok" /\ id = c /\ transId = c
    /\ \E c \in Calls : /\ call[c].kind = "fetchPage" /\ Done(c)
                           /\ call[c].result = "ParserError"

(***************************************************************************)
(* C17: a successful fetchPage updates the cookie jar from its response:   *)
(* every cookie in the response's Set-Cookie header is in the jar with the *)
(* new value after the call returns.                                       *)
(***************************************************************************)
C17_FetchUpdatesCookies ==
    [][ \A c \in Calls :
          (IsFetch(c) /\ Resumes(c) /\ call'[c].result = "Ok") =>
              c \in cookies' ]_vars

\* no exclusive operation holds the lock, waits for it, or has been woken
\* with it
NoExclusive ==
    /\ stateLock \notin Calls
    /\ stateLockQueue = << >>
    /\ \A d \in Calls : call[d].pc # "lockWoken"

(***************************************************************************)
(* C18: stable-state fetches do not exclude one another: when no exclusive *)
(* operation holds or waits for the lock, a fetchPage(changesState=false)  *)
(* started while another one is inside its network call is admitted        *)
(* without suspending, so that two or more are inside their network calls  *)
(* at once.                                                                *)
(***************************************************************************)
C18_StableFetchesShare ==
    [][ \A c \in Calls :
          (/\ Starts(c) /\ call'[c].kind = "fetchPageStable"
           /\ loggedIn(S)
           /\ NoExclusive
           /\ \E d \in Calls : call[d].kind = "fetchPageStable"
                                  /\ InRequest(d)) =>
              /\ call'[c].pc = "inRequest"
              /\ stableStateRetainCount' = stableStateRetainCount + 1 ]_vars

C18_Witness ==
    /\ NoExclusive
    /\ \E c, d \in Calls :
          /\ c # d
          /\ call[c].kind = "fetchPageStable" /\ InRequest(c)
          /\ call[d].kind = "fetchPageStable" /\ InRequest(d)
          /\ stableStateRetainCount = 2

\* the step contains call c's releaseStateLock, which found c to be / not to
\* be the holder
ReleasesAs(c, how) == call[c].relAs = "none" /\ call'[c].relAs = how
\* the lock waiters other than those in W are where they were
OtherWaitersStay(W) ==
    \A e \in Calls \ W : call[e].pc = "lockWait" => call'[e].pc = "lockWait"

(***************************************************************************)
(* C19: releaseStateLock(token) changes nothing when the token is not the  *)
(* current holder's: lock, queue, stateChanging flag and every suspended   *)
(* waiter are as before; when it is the holder's, exactly one queued       *)
(* waiter is woken if the queue is non-empty, otherwise the lock becomes   *)
(* free.                                                                   *)
(***************************************************************************)
C19_NotHolder ==
    \A c \in Calls :
        ReleasesAs(c, "other") =>
            /\ UNCHANGED << stateLock, stateLockQueue, stateChanging,
                            stableStateListeners >>
            /\ \A e \in Calls : Suspended(e) => call'[e] = call[e]

C19_Holder ==
    \A c \in Calls :
        ReleasesAs(c, "holder") =>
            IF stateLockQueue # << >>
            THEN /\ \E d \in Calls : /\ Granted(d)
                                      /\ OtherWaitersStay({d})
                 /\ Len(stateLockQueue') = Len(stateLockQueue) - 1
            ELSE /\ stateLock' = NoLock
                 /\ ~stateChanging'
                 /\ stateLockQueue' = << >>

C19_ReleaseStateLock == [][C19_NotHolder]_vars /\ [][C19_Holder]_vars

C19_Witness ==
    /\ \E c \in Calls : Done(c) /\ call[c].relAs = "other"
    /\ \E c \in Calls : Done(c) /\ call[c].relAs = "holder"
    /\ \E c \in Calls : call[c].pc = "lockWoken"

(***************************************************************************)
(* C20: login() on a session that is already logged in is a no-op: it      *)
(* sends no request, changes no session field, leaves the lock and both    *)
(* queues as they were, and does not start a second heartbeat.             *)
(***************************************************************************)
C20_LoginWhenLoggedIn ==
    [][ \A c \in Calls :
          (Starts(c) /\ call'[c].kind = "login" /\ loggedIn(S)) =>
              /\ call'[c].pc = "done" /\ call'[c].result = "Ok"
              /\ call'[c].sent = 0 /\ ~call'[c].took
              /\ call'[c].beat = "none"
              /\ \A d \in Calls \ {c} : call'[d] = call[d]
              /\ UNCHANGED << id, transId, lastVisitedPageId, visitedPageIds,
                              cookies, _loggedIn >>
              /\ UNCHANGED << stateLock, stateLockQueue, stateChanging,
                              stableStateListeners, stableStateRetainCount >>
              /\ UNCHANGED << sessionTimerRunning, waitKey, waitCancelMap,
                              timer, loops, jobs >> ]_vars

C20_Witness ==
    /\ loggedIn(S)
    /\ \E c \in Calls : /\ call[c].kind = "login" /\ Done(c)
                           /\ call[c].result = "Ok"
                           /\ call[c].sent = 0 /\ ~call[c].took
    /\ \E d \in Calls : call[d].kind = "fetchPage" /\ InRequest(d)
    /\ stateLockQueue # << >>

\* the call of the pure function has returned
Returned(fn) == arg.fn = fn /\ ret.done

Pair(name, value) == << << name >>, << value >> >>

(***************************************************************************)
(* C21: updateCookies applied to an empty jar with the header value        *)
(* `a=1; Path=/; b=2, c=3; Secure` yields the jar {a:1, b:2, c:3}, with    *)
(* the attributes Path and Secure not stored.                              *)
(***************************************************************************)
C21_ExampleStoresABC ==
    (Returned("updateCookies") /\ arg.header = Example /\ arg.jar = {}) =>
        ret.cookies = { Pair("a", "1"), Pair("b", "2"), Pair("c", "3") }

\* C21 as amended: the header yields the jar {a:1, c:3}; b=2 follows the
\* attribute Path inside the first entry and is not stored, nor are Path and
\* Secure
C21_ExampleStoresAC ==
    (Returned("updateCookies") /\ arg.header = Example /\ arg.jar = {}) =>
        /\ ret.exc = "none"
        /\ ret.cookies = { Pair("a", "1"), Pair("c", "3") }

C21_Witness ==
    /\ Returned("updateCookies")
    /\ arg.header = Example /\ arg.jar = {}
    /\ arg.entries = ExampleEntries
    /\ Pair("a", "1") \in ret.cookies

(***************************************************************************)
(* C22: updateCookies tolerates a response that has no Set-Cookie header:  *)
(* it raises no error and leaves the cookie jar unchanged, so that login,  *)
(* the heartbeat and any other caller continue normally.                   *)
(***************************************************************************)
C22_MissingHeaderNoOp ==
    (Returned("updateCookies") /\ arg.header = Missing) =>
        /\ ret.exc = "none"
        /\ ret.cookies = arg.jar

\* the jar after storing the leading name=value pair of every entry
RECURSIVE LeadingPairs(_, _)
LeadingPairs(jar, entries) ==
    IF entries = << >> THEN jar
    ELSE LeadingPairs(Put(jar, Head(entries).name, Head(entries).value),
                      Tail(entries))

(***************************************************************************)
(* C23: for every header value built from cookie entries separated by `,`, *)
(* each entry being name=value followed by zero or more `;`-separated      *)
(* attributes, updateCookies stores exactly the leading name->value pair   *)
(* of every entry (the last entry and entries without attributes           *)
(* included) and stores no attribute name or value as a cookie.            *)
(***************************************************************************)
C23_StoresLeadingPairs ==
    (Returned("updateCookies") /\ arg.header # Missing) =>
        /\ ret.exc = "none"
        /\ ret.cookies = LeadingPairs(arg.jar, arg.entries)

\* the values of the identity keys of two records of one type are equal
SameIdentity(a, b) == a.type = b.type /\ a.idk.v = b.idk.v

\* the values of the comparison keys of two records are equal
SameComparison(a, b) == a.cmp.v = b.cmp.v

\* C24: diff reports a pair as modified exactly when the two records have
\* equal identity keys and differ in a comparison key: for initial [r] and
\* updated [r'] of that kind the result is added = [], modified = [[r, r']],
\* removed = []; when the comparison keys are equal too, the pair is in none
\* of added, modified, removed.
C24_ModifiedIffSameAndDifferent ==
    (/\ Returned("diff")
     /\ Len(arg.initial) = 1 /\ Len(arg.updated) = 1
     /\ SameIdentity(arg.initial[1], arg.updated[1]))
    => /\ ret.added = << >>
       /\ ret.removed = << >>
       /\ ret.modified = IF SameComparison(arg.initial[1], arg.updated[1])
                         THEN << >>
                         ELSE << << arg.initial[1], arg.updated[1] >> >>

Firsts(pairs) == { pairs[k][1] : k \in DOMAIN pairs }
Seconds(pairs) == { pairs[k][2] : k \in DOMAIN pairs }

\* C25: diff partitions both snapshots: every initial record is paired with
\* exactly one updated record or listed in removed, every updated record is
\* paired with exactly one initial record or listed in added, no record is
\* paired twice, and removed and added keep the original relative order.
C25_Partition ==
    Returned("diff") =>
        /\ Firsts(ret.paired) \subseteq Elements(arg.initial)
        /\ Seconds(ret.paired) \subseteq Elements(arg.updated)
        /\ \A k, l \in DOMAIN ret.paired :
              k # l => /\ ret.paired[k][1] # ret.paired[l][1]
                       /\ ret.paired[k][2] # ret.paired[l][2]
        /\ ret.removed = SelectSeq(arg.initial,
                                   LAMBDA r : r \notin Firsts(ret.paired))
        /\ ret.added = SelectSeq(arg.updated,
                                 LAMBDA r : r \notin Seconds(ret.paired))
        /\ Elements(ret.modified) \subseteq Elements(ret.paired)

\* a call of diff that paired one record and left one on either side
C25_Witness ==
    /\ Returned("diff")
    /\ Len(ret.paired) = 1
    /\ Len(ret.removed) = 1
    /\ Len(ret.added) = 1
    /\ Len(ret.modified) = 1

RECURSIVE FirstSameIdentity(_, _, _)
FirstSameIdentity(first, list, k) ==
    IF k > Len(list) THEN 0
    ELSE IF SameIdentity(first, list[k]) THEN k
    ELSE FirstSameIdentity(first, list, k + 1)

RECURSIVE GreedyPairs(_, _)
GreedyPairs(initial, unpaired) ==
    IF initial = << >> THEN << >>
    ELSE LET k == FirstSameIdentity(Head(initial), unpaired, 1)
         IN  IF k = 0
             THEN GreedyPairs(Tail(initial), unpaired)
             ELSE << << Head(initial), unpaired[k] >> >>
                  \o GreedyPairs(Tail(initial), Splice(unpaired, k))

\* C26: diff pairs greedily by list order: taking the initial records in
\* order, each is paired with the first updated record, in list order, that
\* has the same identity key and has not been paired already.
C26_GreedyByListOrder ==
    Returned("diff") => ret.paired = GreedyPairs(arg.initial, arg.updated)

\* C27: link, given an AbsenceReport whose absenceId matches no Absence of
\* the input, records a fatal exception in the result's exception list and
\* leaves that report out of the result's absenceReports list.
C27_UnmatchedReportExcluded ==
    Returned("link") =>
        \A k \in DOMAIN arg.user.absenceReports :
            absenceIdTable(arg.user, arg.user.absenceReports[k].absenceId) = 0
            => /\ \E x \in DOMAIN ret.result.exceptions :
                     /\ ret.result.exceptions[x].level = "Fatal"
                     /\ ret.result.exceptions[x].section = "AbsenceReports"
               /\ \A l \in DOMAIN ret.result.absenceReports :
                     ret.result.absenceReports[l].id # arg.user.absenceReports[k].id

\* the step runs handleLogout: the heartbeat's request has failed, a logout
\* finishes, or a login or fetchPage finishes in its catch block
RunsHandleLogout ==
    \/ HeartbeatFails
    \/ \E c \in Calls :
          /\ ~Done(c) /\ Done(c)'
          /\ \/ call[c].kind = "logout"
             \/ call'[c].result \in {"RequestError", "ParserError", "TypeError"}

\* C28: in every reachable state loggedIn is true only if the internal flag
\* is set and id, transId and lastVisitedPageId are all present; at the end
\* of a step that has run handleLogout it is false.
C28_LoggedInDerived ==
    /\ [](loggedIn(S) => /\ _loggedIn
                         /\ id # 0 /\ transId # 0 /\ lastVisitedPageId # 0)
    /\ [][RunsHandleLogout => ~loggedIn(S)']_vars

\* a logout of a logged-in session has sent its request and finished
C28_Witness ==
    /\ ~loggedIn(S)
    /\ \E c \in Calls : /\ Done(c) /\ call[c].kind = "logout"
                        /\ call[c].sent > 0
    /\ \E c \in Calls : /\ Done(c) /\ call[c].kind = "login"
                        /\ call[c].sent = 2 /\ call[c].result = "Ok"

\* the step changes the session's id, transId, cookie jar or visited pages
MutatesSession ==
    \/ id' # id \/ transId' # transId
    \/ cookies' # cookies \/ visitedPageIds' # visitedPageIds

\* the step belongs to call c: its synchronous part or its continuation
StepOf(c) == Starts(c) \/ (jobs # << >> /\ Head(jobs) = c)

\* call c holds the exclusive lock or a stable-state slot
HoldsLockOrSlot(c) ==
    \/ stateLock = c
    \/ /\ call[c].kind = "fetchPageStable"
       /\ call[c].took /\ call[c].rel = 0
       /\ stableStateRetainCount > 0

\* C30: every mutation of the session's id, transId, cookie jar or visited
\* pages is made by an operation that holds the exclusive state lock or a
\* stable-state slot at that moment, the mutations of the heartbeat (cookie
\* update, teardown on failure) and of logout included.
C30_MutationUnderLockOrSlot ==
    [][ MutatesSession =>
          \E c \in Calls : StepOf(c) /\ HoldsLockOrSlot(c) ]_vars

\* the lines or rows the records of a list were read from
Froms(records) == { records[k].from : k \in DOMAIN records }

\* the line violates the shape of a teacher line
BadLine(line) == line.matches # 4

\* the subject of a page violates the shape of a subject: its row does, or
\* its grades table has a heading row only
BadSubject(g) == ~g.subjectShape \/ Len(g.table) = 1

\* the rows of the grades table of a subject that violate the shape of a grade
BadGrades(g) == { k \in 2..Len(g.table) : g.table[k] # 4 }

\* C29: in every parser a fatal shape violation raised for one record aborts
\* only that record: the violating record is not in the result's record
\* lists, one exception for it is in the exception list, and every later row
\* of the batch is still parsed and its record returned.
C29_FatalAbortsOneRecord ==
    /\ (Returned("parseTeachers") /\ arg.content # << >>) =>
          /\ \A k \in 2..Len(arg.content) :
                BadLine(arg.content[k]) <=> arg.content[k] \notin Froms(ret.teachers)
          /\ Len(ret.exceptions) =
                Cardinality({ k \in 2..Len(arg.content) : BadLine(arg.content[k]) })
    /\ (Returned("parseGrades") /\ arg.content # << >>) =>
          /\ \A n \in DOMAIN arg.groups :
                BadSubject(arg.groups[n]) <=>
                   ~\E r \in Froms(ret.subjects) :
                        r.class = "subject" /\ r.group = n
          /\ \A n \in DOMAIN arg.groups :
                ~BadSubject(arg.groups[n]) =>
                   \A k \in 2..Len(arg.groups[n].table) :
                      k \in BadGrades(arg.groups[n]) <=>
                         ~\E r \in Froms(ret.grades) : r.group = n /\ r.row = k
          /\ Len(ret.exceptions) =
                Cardinality({ n \in DOMAIN arg.groups : BadSubject(arg.groups[n]) })
                + Cardinality(UNION { { << n, k >> : k \in BadGrades(arg.groups[n]) } :
                                         n \in { m \in DOMAIN arg.groups :
                                                    ~BadSubject(arg.groups[m]) } })

\* C31: whenever the stable-state retain count is greater than zero the
\* state lock is held by the placeholder token of the read section; the
\* placeholder is installed when the count goes from zero to non-zero and
\* is released exactly when the count returns to zero, not before.
C31_PlaceholderWhileRetained ==
    /\ [](stableStateRetainCount > 0 => stateLock = Placeholder)
    /\ [][ /\ (stableStateRetainCount = 0 /\ stableStateRetainCount' > 0)
                => stateLock' = Placeholder
           /\ (stateLock = Placeholder /\ stateLock' # Placeholder)
                <=> (stableStateRetainCount > 0 /\ stableStateRetainCount' = 0)
         ]_vars

\* C32: after link the relationships are bidirectional: subject.teacherId is
\* t.id exactly when subject.id is in t.subjectIds; grade.subjectId is s.id
\* exactly when grade.id is in s.gradeIds; openAbsence.subjectId is s.id
\* exactly when its id is in s.openAbsenceIds; report.subjectId is s.id
\* exactly when report.id is in s.absenceReportIds; and s.id is in
\* absence.subjectIds exactly when absence.id is in s.absenceIds.
C32_Bidirectional ==
    Returned("link") =>
        LET r == ret.result
        IN  \A s \in Elements(r.subjects) :
               /\ \A t \in Elements(r.teachers) :
                     s.teacherId = t.id <=> s.id \in Elements(t.subjectIds)
               /\ \A g \in Elements(r.grades) :
                     g.subjectId = s.id <=> g.id \in Elements(s.gradeIds)
               /\ \A o \in Elements(r.openAbsences) :
                     o.subjectId = s.id <=> o.id \in Elements(s.openAbsenceIds)
               /\ \A a \in Elements(r.absenceReports) :
                     a.subjectId = s.id <=> a.id \in Elements(s.absenceReportIds)
               /\ \A a \in Elements(r.absences) :
                     s.id \in Elements(a.subjectIds)
                        <=> a.id \in Elements(s.absenceIds)

\* link has related a subject to a teacher, a grade, an open absence, an
\* absence report and an absence
C32_Witness ==
    /\ Returned("link")
    /\ \E s \in Elements(ret.result.subjects) :
          /\ s.teacherId # NoId
          /\ s.gradeIds # << >>
          /\ s.openAbsenceIds # << >>
          /\ s.absenceReportIds # << >>
          /\ s.absenceIds # << >>
    /\ \E s \in Elements(ret.result.subjects) : s.absenceIds = << >>

\* no id occurs twice in the list
NoDuplicate(list) ==
    \A k, l \in DOMAIN list : k # l => list[k] # list[l]

\* C40: link is idempotent on the relationship lists: running it again on
\* records that were already linked adds no duplicate id to
\* teacher.subjectIds, subject.gradeIds, subject.openAbsenceIds,
\* subject.absenceReportIds, subject.absenceIds, absence.absenceReportIds or
\* absence.subjectIds.
C40_LinkIdempotent ==
    Returned("link") =>
        LET r == ret.result
        IN  /\ \A t \in Elements(r.teachers) : NoDuplicate(t.subjectIds)
            /\ \A s \in Elements(r.subjects) :
                  /\ NoDuplicate(s.gradeIds)
                  /\ NoDuplicate(s.openAbsenceIds)
                  /\ NoDuplicate(s.absenceReportIds)
                  /\ NoDuplicate(s.absenceIds)
            /\ \A a \in Elements(r.absences) :
                  /\ NoDuplicate(a.absenceReportIds)
                  /\ NoDuplicate(a.subjectIds)

\* the callers that have retained the stable state and not released it yet
Retainers ==
    { c \in Calls : /\ call[c].kind = "fetchPageStable"
                    /\ call[c].took /\ call[c].rel = 0 }

\* C33: in every reachable state the stable-state retain count is the number
\* of callers that have retained and not yet released; it is never negative,
\* also after logout or teardownLockInfrastructure ran while stable-state
\* fetches were in flight.
C33_RetainCountIsRetainers ==
    /\ stableStateRetainCount = Cardinality(Retainers)
    /\ stableStateRetainCount >= 0

\* C34: whenever waitKey is set it names a wait that is still pending, so
\* stopSessionTimer never calls cancelWait on a key that is no longer
\* registered and handleLogout always runs to completion, also while the
\* heartbeat's reset request is in flight.
C34_WaitKeyIsPending ==
    /\ waitKey # NoKey => waitKey \in waitCancelMap
    /\ \A c \in Calls : call[c].result # "TypeError"

\* the step sends the GET request of fetchPage call c
SendsFetch(c) ==
    /\ call[c].kind \in {"fetchPage", "fetchPageStable"}
    /\ call'[c].sent > call[c].sent

\* C35: no fetchPage sends its GET request while the session is not logged
\* in: a fetch that passed the logged-in check and was then suspended does
\* not issue its request if the session was torn down before it was
\* admitted.
C35_NoFetchLoggedOut ==
    [][ \A c \in Calls : SendsFetch(c) => loggedIn(S) ]_vars

\* the step is the continuation of fetchPage call c with its response
FetchWrites(c) ==
    /\ call[c].kind \in {"fetchPage", "fetchPageStable"}
    /\ call[c].pc = "gotResp" /\ call'[c].pc = "done"

\* C36: once the session has been torn down, id, transId, the cookie jar and
\* the visited-page set stay cleared until the next login: a fetchPage that
\* was in flight when the teardown happened does not write id/transId or
\* add its page id to the visited set when its response arrives.
C36_ClearedUntilLogin ==
    [][ \A c \in Calls :
          (FetchWrites(c) /\ ~loggedIn(S)) =>
              /\ id' = id /\ transId' = transId
              /\ visitedPageIds' \subseteq visitedPageIds ]_vars

\* C37: whenever the session is logged in a heartbeat loop is running for
\* it, also after a logout or failure followed by a new login while the
\* previous loop had not finished; and a reset request that was sent for
\* an earlier login never tears down the session of a later login.
C37_HeartbeatWhileLoggedIn == [](loggedIn(S) => loops = 1)

C37_ResetOfThisLogin ==
    [][ (HeartbeatFails /\ loggedIn(S)) => resetFor = Logins(S) ]_vars

C37_HeartbeatServesLogin ==
    C37_HeartbeatWhileLoggedIn /\ C37_ResetOfThisLogin

\* login call c is inside its request sequence
LoginInRequests(c) ==
    /\ call[c].kind = "login"
    /\ call[c].pc \in {"inRequest1", "gotResp1", "inRequest2", "gotResp2"}

\* the step is the continuation of login call c with the lock it waited for
LoginAdmitted(c) ==
    /\ call[c].kind = "login"
    /\ call[c].pc = "lockWoken" /\ call'[c].pc # "lockWoken"

\* C38: when several login() calls are made concurrently on a logged-out
\* session, at most one of them performs the login request sequence at a
\* time, and if that one succeeds the others return after acquiring the
\* lock without sending any request and without changing id, transId or
\* cookies.
C38_OneLoginAtATime ==
    [](Cardinality({ c \in Calls : LoginInRequests(c) }) <= 1)

C38_OthersReturn ==
    [][ \A c \in Calls :
          (LoginAdmitted(c) /\ loggedIn(S)) =>
              /\ Done(c)' /\ call'[c].result = "Ok" /\ call'[c].sent = 0
              /\ UNCHANGED << id, transId, cookies >> ]_vars

C38_ConcurrentLogins == C38_OneLoginAtATime /\ C38_OthersReturn

\* fetchPage call d is inside its network call
FetchInFlight(d) ==
    /\ call[d].kind \in {"fetchPage", "fetchPageStable"}
    /\ call[d].pc = "inRequest"

\* the step belongs to a logout() call
LogoutStep == \E c \in Calls : StepOf(c) /\ call'[c].kind = "logout"

\* no step of a logout frees the lock or zeroes the retain count under a
\* fetch that is inside its network call
C39_LogoutKeepsHolders ==
    [][ LogoutStep =>
          \A d \in Calls :
             FetchInFlight(d) =>
                /\ stateLock = d => stateLock' = d
                /\ (call[d].kind = "fetchPageStable" /\ stableStateRetainCount > 0)
                      => (stableStateRetainCount' > 0 /\ stateLock' = stateLock)
      ]_vars

\* every call has returned, the last one made being a logout, and a logout
\* had its wait cancelled by another one
LogoutsReturned ==
    /\ started > 0
    /\ \A c \in 1..started : Done(c)
    /\ call[started].kind = "logout"
    /\ \E c \in Calls : call[c].kind = "logout" /\ call[c].cancelled

\* C39: concurrent logout() calls are safe: when a second logout cancels the
\* first one's wait, neither logout frees the state lock (or zeroes the
\* retain count) while a fetch that holds it is inside its network call,
\* and when both have returned the session is logged out, the lock is free
\* and both queues are empty.
C39_ConcurrentLogouts ==
    /\ C39_LogoutKeepsHolders
    /\ [](LogoutsReturned =>
            /\ ~loggedIn(S)
            /\ stateLock = NoLock
            /\ stateLockQueue = << >>
            /\ stableStateListeners = << >>)

====
